---- MODULE Spec2Model ----
(***************************************************************************)
(* A model of python/convolution_kernel/convolution_kernel.py: the class   *)
(* ConvolutionKernel (constructor, anchor property, indexed cell access    *)
(* and apply), and of the way python/convolution_kernel/image.py uses it   *)
(* (construct a kernel, then apply it to a channel of an image).           *)
(*                                                                         *)
(* Python lists and tuples are sequences: Python's l[i] is l[i + 1] here.  *)
(* A point (x, y) is the tuple <<x, y>>; the anchor argument None is the   *)
(* empty tuple.                                                            *)
(***************************************************************************)
EXTENDS Integers, Sequences, FiniteSets

VARIABLES
    matrix,     \* the caller's list of lists handed to __init__
    exists,     \* whether __init__ has completed and the object exists
    _matrix,    \* the slot self._matrix
    _anchor,    \* the slot self._anchor
    writes,     \* how many cell writes have been made (bounds the exploration)
    last,       \* the last call made: its name, arguments and outcome
    shared,     \* the pairs <<k, c>> with self._matrix[k] and matrix[c] one list object
    mutations   \* how many times the caller has changed its list (bounds the exploration)

vars == <<matrix, exists, _matrix, _anchor, writes, last, shared, mutations>>

(***************************************************************************)
(* Bounds of the exploration.                                              *)
(***************************************************************************)
MaxDim == 2      \* widths and heights of the matrices tried: 0..MaxDim
MaxLimit == 3    \* limits[0] and limits[1] of apply: 0..MaxLimit
MaxWrites == 1   \* cell writes per kernel
MaxMutations == 1   \* changes the caller makes to its list

(***************************************************************************)
(* Python values.                                                          *)
(***************************************************************************)
None == <<>>

\* The exceptions the class raises, with the number of their message.
NoError == "None"
ValueError1 == "ValueError[1]"
ValueError2 == "ValueError[2]"
IndexError3 == "IndexError[3]"
IndexError1 == "IndexError[1]"
IndexError == "IndexError"
ZeroDivisionError == "ZeroDivisionError"
FunctionError == "FunctionError"

Abs(n) == IF n < 0 THEN -n ELSE n

RECURSIVE Gcd(_, _)
Gcd(a, b) == IF b = 0 THEN a ELSE Gcd(b, a % b)

\* Python's true division a / b of two integers, b # 0: the quotient as a
\* fraction in lowest terms with a positive denominator (equal quotients are
\* equal floats).
TrueDiv(a, b) ==
    LET g == Gcd(Abs(a), Abs(b))
    IN  IF b < 0 THEN <<(-a) \div g, (-b) \div g>> ELSE <<a \div g, b \div g>>

\* Python's l[i]: a negative index counts from the end.
ListGet(l, i) == l[IF i < 0 THEN Len(l) + i + 1 ELSE i + 1]

\* Whether Python's l[i] raises IndexError.
ListIndexError(l, i) == i >= Len(l) \/ i < -Len(l)

(***************************************************************************)
(* The inputs tried.                                                       *)
(***************************************************************************)
\* The value a caller's matrix holds at column col, row row (both counted
\* from 0): every cell of a matrix holds another value.
CellValue(col, row) == 10 * col + row + 1

\* A caller's list of lists with the given column lengths; the columns of a
\* ragged one have different lengths.
MatrixOfShape(lens) ==
    [col \in 1..Len(lens) |-> [row \in 1..lens[col] |-> CellValue(col - 1, row - 1)]]

RECURSIVE SeqsUpTo(_, _)
SeqsUpTo(S, n) ==
    IF n = 0 THEN {<<>>}
    ELSE LET shorter == SeqsUpTo(S, n - 1)
         IN  shorter \cup {Append(s, x) : s \in {t \in shorter : Len(t) = n - 1}, x \in S}

\* The matrices of edge_detection and box_blur (image.py, lines 39 and 109),
\* and the 3x3 matrix of ones.
EdgeDetectionMatrix == <<<<0, -1, 0>>, <<-1, 0, 1>>, <<0, 1, 0>>>>

BoxBlurMatrix == <<<<0, 1, 0>>, <<1, 0, 1>>, <<0, 1, 0>>>>

OnesMatrix == <<<<1, 1, 1>>, <<1, 1, 1>>, <<1, 1, 1>>>>

\* Every list of at most MaxDim columns of at most MaxDim cells each (the
\* rectangular ones, the ragged ones, [] and [[]]), and a matrix of image.py.
CallerMatrices ==
    {MatrixOfShape(lens) : lens \in SeqsUpTo(0..MaxDim, MaxDim)} \cup {EdgeDetectionMatrix}

\* The anchor arguments tried: None, and every point in and around a matrix.
AnchorArguments == {None} \cup ((-1..(MaxDim + 1)) \X (-1..(MaxDim + 1)))

\* The indices tried by the cell accessors.
IndexArguments == (-1..(MaxDim + 1)) \X (-1..(MaxDim + 1))

\* The values written to a cell.
WrittenValues == {7}

\* The values and the inner lists the caller puts into its own list.
CallerValues == {9}

CallerColumns == {<<9>>}

(***************************************************************************)
(* The properties width and height (lines 109-129).                        *)
(***************************************************************************)
width(m) == Len(m)

height(m) == Len(m[1])

(***************************************************************************)
(* __init__ (lines 16-72).                                                 *)
(***************************************************************************)
\* line 55: every inner sequence after the first is as long as the first
\* (matrix[0] is read only when there is a second inner sequence).
IsValidMatrixFromThird(m) == \A i \in 3..Len(m) : Len(m[i]) = Len(m[1])

IsValidMatrix(m) == \A i \in 2..Len(m) : Len(m[i]) = Len(m[1])

\* line 59: a dimension is even, so that no cell is the centre.
HasEvenDimensionWidthOnly(m) == Len(m) % 2 = 0

HasEvenDimension(m) == Len(m) % 2 = 0 \/ Len(m[1]) % 2 = 0

\* line 63: the centred anchor.
CentredAnchor(m) == <<(Len(m) - 1) \div 2, (Len(m[1]) - 1) \div 2>>

\* line 66: the anchor passed is outside the matrix.
InitAnchorOutsideNoLowerBound(m, anchor) ==
    ~(anchor[1] < Len(m)) \/ Len(m) = 0 \/ ~(anchor[2] < Len(m[1]))

InitAnchorOutside(m, anchor) ==
    ~(0 <= anchor[1] /\ anchor[1] < Len(m)) \/ ~(0 <= anchor[2] /\ anchor[2] < Len(m[1]))

\* line 71: whether the copy reads past the end of an inner sequence (the
\* list's own IndexError), and the copy.
CopyRaises(m) ==
    \E col \in 0..(Len(m) - 1) : \E row \in 0..(Len(m[1]) - 1) :
        ListIndexError(ListGet(m, col), row)

CopyMatrix(m) ==
    [col \in 1..Len(m) |-> [row \in 1..Len(m[1]) |-> ListGet(ListGet(m, col - 1), row - 1)]]

\* line 71: the inner lists of the copy that are inner lists of the matrix
\* passed, as pairs of their places in the two. Both comprehensions build new
\* lists, so there is none.
CopySharingInnerLists(m) == {<<col, col>> : col \in 0..(Len(m) - 1)}

CopySharing(m) == {}

\* The outcome of __init__(matrix, anchor): the exception raised (no object
\* then) or the slots of the new object.
Constructed(m, anchor) == [raised |-> NoError, _matrix |-> CopyMatrix(m), _anchor |-> anchor]

Failed(error) == [raised |-> error, _matrix |-> None, _anchor |-> None]

__init__(m, anchor) ==
    IF ~IsValidMatrix(m) THEN Failed(ValueError1)
    ELSE IF anchor = None
         THEN IF HasEvenDimension(m) THEN Failed(ValueError2)
              ELSE IF CopyRaises(m) THEN Failed(IndexError)
              ELSE Constructed(m, CentredAnchor(m))
         ELSE IF InitAnchorOutside(m, anchor) THEN Failed(IndexError3)
              ELSE IF CopyRaises(m) THEN Failed(IndexError)
              ELSE Constructed(m, anchor)

(***************************************************************************)
(* The anchor setter (lines 86-107).                                       *)
(***************************************************************************)
\* line 104
SetterAnchorOutsideInclusive(m, value) ==
    ~(0 <= value[1] /\ value[1] <= width(m)) \/ ~(0 <= value[2] /\ value[2] <= height(m))

SetterAnchorOutside(m, value) ==
    ~(0 <= value[1] /\ value[1] < width(m)) \/ ~(0 <= value[2] /\ value[2] < height(m))

(***************************************************************************)
(* __getitem__ and __setitem__ (lines 143-178).                            *)
(***************************************************************************)
\* line 167
GetIndexOutsideNoLowerBound(m, index) ==
    ~(index[1] < width(m)) \/ ~(index[2] < height(m))

GetIndexOutside(m, index) ==
    ~(0 <= index[1] /\ index[1] < width(m)) \/ ~(0 <= index[2] /\ index[2] < height(m))

\* line 175
SetIndexOutside(m, index) ==
    ~(0 <= index[1] /\ index[1] < width(m)) \/ ~(0 <= index[2] /\ index[2] < height(m))

\* line 170: self._matrix[index[0]][index[1]]
CellAt(m, index) == ListGet(ListGet(m, index[1]), index[2])

\* line 178: self._matrix[index[0]][index[1]] = value
ListSet(l, i, v) == [l EXCEPT ![IF i < 0 THEN Len(l) + i + 1 ELSE i + 1] = v]

WithCellWholeColumn(m, index, value) ==
    ListSet(m, index[1], [row \in 1..Len(ListGet(m, index[1])) |-> value])

WithCell(m, index, value) ==
    ListSet(m, index[1], ListSet(ListGet(m, index[1]), index[2], value))

\* self[index]: the exception raised, or the value returned.
__getitem__(m, index) ==
    IF GetIndexOutside(m, index) THEN [raised |-> IndexError1, ret |-> None]
    ELSE [raised |-> NoError, ret |-> CellAt(m, index)]

(***************************************************************************)
(* apply (lines 181-249).                                                  *)
(*                                                                         *)
(* The argument function is the record [values, fails]: called with a      *)
(* point p it returns values[p], and raises when p is in fails or outside  *)
(* the points it is defined on.                                            *)
(***************************************************************************)
FunctionRaises(function, p) == p \notin DOMAIN function.values \/ p \in function.fails

\* line 226: the matrix that will be returned, all zeros.
ZeroOutput(limits) ==
    [x \in 1..limits[1] |-> [y \in 1..limits[2] |-> TrueDiv(0, 1)]]

\* lines 236-237: what is subtracted from index + kernel index.
TargetOffsetFromAnchor(m, anchor) == anchor

TargetOffset(m, anchor) == <<(width(m) - 1) \div 2, (height(m) - 1) \div 2>>

\* line 240: the target is inside the limits.
InLimitsInclusive(target, limits) ==
    0 <= target[1] /\ target[1] <= limits[1] /\ 0 <= target[2] /\ target[2] <= limits[2]

InLimits(target, limits) ==
    0 <= target[1] /\ target[1] < limits[1] /\ 0 <= target[2] /\ target[2] < limits[2]

\* lines 242 and 244: self[kernel_ix, kernel_iy]
KernelValueFlipped(m, kernel_ix, kernel_iy) ==
    __getitem__(m, <<width(m) - 1 - kernel_ix, height(m) - 1 - kernel_iy>>).ret

KernelValue(m, kernel_ix, kernel_iy) == __getitem__(m, <<kernel_ix, kernel_iy>>).ret

\* line 244: what a target outside the limits contributes.
OutsideValueClamped(function, limits, target, default) ==
    LET cx == IF target[1] < 0 THEN 0 ELSE IF target[1] >= limits[1] THEN limits[1] - 1 ELSE target[1]
        cy == IF target[2] < 0 THEN 0 ELSE IF target[2] >= limits[2] THEN limits[2] - 1 ELSE target[2]
    IN  function.values[<<cx, cy>>]

OutsideValueWrapped(function, limits, target, default) ==
    function.values[<<target[1] % limits[1], target[2] % limits[2]>>]

OutsideValue(function, limits, target, default) == default

\* lines 236-244: one pass of the body of the two inner loops, for the k-th
\* kernel cell in the order of the loops (kernel_iy outside, kernel_ix inside).
\* call holds self's slots and apply's arguments; acc holds new_total, the
\* points function was called with so far, and the exception raised.
KernelStepSwallowing(call, index, k, acc) ==
    LET kernel_ix == k % width(call._matrix)
        kernel_iy == k \div width(call._matrix)
        offset == TargetOffset(call._matrix, call._anchor)
        target == <<index[1] + kernel_ix - offset[1], index[2] + kernel_iy - offset[2]>>
    IN  IF InLimits(target, call.limits)
        THEN IF FunctionRaises(call.function, target)
             THEN [acc EXCEPT !.calls = Append(@, target),
                              !.new_total = @ + call.default
                                                * KernelValue(call._matrix, kernel_ix, kernel_iy)]
             ELSE [acc EXCEPT !.calls = Append(@, target),
                              !.new_total = @ + call.function.values[target]
                                                * KernelValue(call._matrix, kernel_ix, kernel_iy)]
        ELSE [acc EXCEPT !.new_total =
                  @ + OutsideValue(call.function, call.limits, target, call.default)
                      * KernelValue(call._matrix, kernel_ix, kernel_iy)]

KernelStep(call, index, k, acc) ==
    LET kernel_ix == k % width(call._matrix)
        kernel_iy == k \div width(call._matrix)
        offset == TargetOffset(call._matrix, call._anchor)
        target == <<index[1] + kernel_ix - offset[1], index[2] + kernel_iy - offset[2]>>
    IN  IF InLimits(target, call.limits)
        THEN IF FunctionRaises(call.function, target)
             THEN [acc EXCEPT !.calls = Append(@, target), !.raised = FunctionError]
             ELSE [acc EXCEPT !.calls = Append(@, target),
                              !.new_total = @ + call.function.values[target]
                                                * KernelValue(call._matrix, kernel_ix, kernel_iy)]
        ELSE [acc EXCEPT !.new_total =
                  @ + OutsideValue(call.function, call.limits, target, call.default)
                      * KernelValue(call._matrix, kernel_ix, kernel_iy)]

\* lines 234-244: the two inner loops from the k-th kernel cell on; an
\* exception ends them.
RECURSIVE KernelLoop(_, _, _, _)
KernelLoop(call, index, k, acc) ==
    IF k >= width(call._matrix) * height(call._matrix) \/ acc.raised # NoError THEN acc
    ELSE KernelLoop(call, index, k + 1, KernelStep(call, index, k, acc))

\* lines 229-247: the two outer loops from the n-th output cell on, in the
\* order of the loops (index_y outside, index_x inside). acc holds output,
\* the points function was called with so far, and the exception raised.
RECURSIVE OutputLoop(_, _, _)
OutputLoop(call, n, acc) ==
    IF n >= call.limits[1] * call.limits[2] \/ acc.raised # NoError THEN acc
    ELSE LET index_x == n % call.limits[1]
             index_y == n \div call.limits[1]
             sum == KernelLoop(call, <<index_x, index_y>>, 0,
                               [new_total |-> 0, calls |-> acc.calls, raised |-> NoError])
         IN  IF sum.raised # NoError
             THEN [acc EXCEPT !.calls = sum.calls, !.raised = sum.raised]
             ELSE IF call.weight = 0
             THEN [acc EXCEPT !.calls = sum.calls, !.raised = ZeroDivisionError]
             ELSE OutputLoop(call, n + 1,
                     [acc EXCEPT !.calls = sum.calls,
                                 !.output[index_x + 1][index_y + 1] =
                                     TrueDiv(sum.new_total, call.weight)])

\* self.apply(function, limits, weight, default): the exception raised or the
\* matrix returned, and the points function was called with, in order.
apply(m, anchor, function, limits, weight, default) ==
    LET call == [_matrix |-> m, _anchor |-> anchor, function |-> function,
                 limits |-> limits, weight |-> weight, default |-> default]
        end == OutputLoop(call, 0, [output |-> ZeroOutput(limits), calls |-> <<>>,
                                    raised |-> NoError])
    IN  [raised |-> end.raised,
         ret |-> IF end.raised = NoError THEN end.output ELSE None,
         calls |-> end.calls]

(***************************************************************************)
(* The arguments apply is tried with.                                      *)
(***************************************************************************)
Points(limits) == (0..(limits[1] - 1)) \X (0..(limits[2] - 1))

\* The functions that return a value of constants everywhere, and those that
\* return base everywhere but at one point of ats, where they return a value
\* of spikes or raise.
Functions(limits, constants, base, spikes, ats) ==
    {[values |-> [p \in Points(limits) |-> c], fails |-> {}] : c \in constants}
    \cup {[values |-> [p \in Points(limits) |-> IF p = at THEN spike ELSE base], fails |-> {}] :
            spike \in spikes, at \in ats \cap Points(limits)}
    \cup {[values |-> [p \in Points(limits) |-> base], fails |-> {at}] :
            at \in ats \cap Points(limits)}

Calls(limitss, constants, base, spikes, ats, weights, defaults) ==
    UNION {[function : Functions(limits, constants, base, spikes, ats), limits : {limits},
            weight : weights, default : defaults] : limits \in limitss}

\* On a kernel whose cells and anchor are being read and written.
KernelCalls == Calls({<<1, 2>>, <<2, 2>>}, {1}, 1, {10}, {<<0, 0>>}, {-2, 0}, {3})

\* By a filter: every limits up to MaxLimit, a spike or a failure at any point.
FilterCalls ==
    Calls((0..MaxLimit) \X (0..MaxLimit), {0, 3}, 0, {10},
          (0..MaxLimit) \X (0..MaxLimit), {0, 1, 4, 9}, {0, 1})

\* The matrices a filter is tried with: those three, and one of each width
\* and height up to MaxDim.
FilterMatrices ==
    {EdgeDetectionMatrix, BoxBlurMatrix, OnesMatrix}
    \cup {MatrixOfShape([col \in 1..w |-> h]) : w \in 1..MaxDim, h \in 1..MaxDim}

\* The anchors a filter passes: (1, 1) as image.py does, none and (0, 0).
FilterAnchors == {<<1, 1>>, None, <<0, 0>>}

(***************************************************************************)
(* The state before __init__.                                              *)
(***************************************************************************)
NoCall == [op |-> "none"]

Init ==
    /\ matrix \in CallerMatrices
    /\ exists = FALSE
    /\ _matrix = None
    /\ _anchor = None
    /\ writes = 0
    /\ last = NoCall
    /\ shared = {}
    /\ mutations = 0

FilterInit ==
    /\ matrix \in FilterMatrices
    /\ exists = FALSE
    /\ _matrix = None
    /\ _anchor = None
    /\ writes = 0
    /\ last = NoCall
    /\ shared = {}
    /\ mutations = 0

(***************************************************************************)
(* The calls.                                                              *)
(***************************************************************************)
\* ConvolutionKernel(matrix, anchor)
Construct(anchor) ==
    /\ ~exists
    /\ last = NoCall
    /\ LET new == __init__(matrix, anchor)
       IN  /\ exists' = (new.raised = NoError)
           /\ _matrix' = new._matrix
           /\ _anchor' = new._anchor
           /\ last' = [op |-> "__init__", anchor |-> anchor, raised |-> new.raised]
           /\ shared' = IF new.raised = NoError THEN CopySharing(matrix) ELSE {}
    /\ UNCHANGED <<matrix, writes, mutations>>

\* kernel.anchor = value
SetAnchor(value) ==
    /\ exists
    /\ last = NoCall
    /\ IF SetterAnchorOutside(_matrix, value)
       THEN /\ last' = [op |-> "anchor", value |-> value, raised |-> IndexError1]
            /\ UNCHANGED _anchor
       ELSE /\ last' = [op |-> "anchor", value |-> value, raised |-> NoError]
            /\ _anchor' = value
    /\ UNCHANGED <<matrix, exists, _matrix, writes, shared, mutations>>

\* kernel[index]
GetItem(index) ==
    /\ exists
    /\ last = NoCall
    /\ LET got == __getitem__(_matrix, index)
       IN  last' = [op |-> "__getitem__", index |-> index, raised |-> got.raised,
                    ret |-> got.ret]
    /\ UNCHANGED <<matrix, exists, _matrix, _anchor, writes, shared, mutations>>

\* kernel[index] = value
SetItem(index, value) ==
    /\ exists
    /\ last = NoCall
    /\ IF SetIndexOutside(_matrix, index)
       THEN /\ last' = [op |-> "__setitem__", index |-> index, value |-> value,
                        raised |-> IndexError1]
            /\ UNCHANGED <<matrix, _matrix, writes>>
       ELSE /\ writes < MaxWrites
            /\ last' = [op |-> "__setitem__", index |-> index, value |-> value,
                        raised |-> NoError]
            /\ _matrix' = WithCell(_matrix, index, value)
            /\ matrix' = [c \in 1..Len(matrix) |->
                             IF <<index[1], c - 1>> \in shared
                             THEN ListGet(_matrix', index[1])
                             ELSE matrix[c]]
            /\ writes' = writes + 1
    /\ UNCHANGED <<exists, _anchor, shared, mutations>>

\* kernel.apply(function, limits, weight, default)
ApplyRecentring(function, limits, weight, default) ==
    /\ exists
    /\ last = NoCall
    /\ LET end == apply(_matrix, _anchor, function, limits, weight, default)
       IN  last' = [op |-> "apply", function |-> function, limits |-> limits,
                    weight |-> weight, default |-> default, raised |-> end.raised,
                    ret |-> end.ret, calls |-> end.calls]
    /\ _anchor' = TargetOffset(_matrix, _anchor)
    /\ UNCHANGED <<matrix, exists, _matrix, writes, shared, mutations>>

Apply(function, limits, weight, default) ==
    /\ exists
    /\ last = NoCall
    /\ LET end == apply(_matrix, _anchor, function, limits, weight, default)
       IN  last' = [op |-> "apply", function |-> function, limits |-> limits,
                    weight |-> weight, default |-> default, raised |-> end.raised,
                    ret |-> end.ret, calls |-> end.calls]
    /\ UNCHANGED <<matrix, exists, _matrix, _anchor, writes, shared, mutations>>

\* matrix[col][row] = value, by the caller on the list it constructed the
\* kernel from: an inner list the kernel shares changes for the kernel too.
CallerSetElement(col, row, value) ==
    /\ exists
    /\ last = NoCall
    /\ mutations < MaxMutations
    /\ ~ListIndexError(matrix, col)
    /\ ~ListIndexError(ListGet(matrix, col), row)
    /\ matrix' = ListSet(matrix, col, ListSet(ListGet(matrix, col), row, value))
    /\ _matrix' = [k \in 1..Len(_matrix) |->
                      IF <<k - 1, col>> \in shared THEN ListGet(matrix', col) ELSE _matrix[k]]
    /\ last' = [op |-> "matrix[col][row] = value", col |-> col, row |-> row, value |-> value]
    /\ mutations' = mutations + 1
    /\ UNCHANGED <<exists, _anchor, writes, shared>>

\* matrix[col] = column, by the caller: its list holds another inner list.
CallerSetColumn(col, column) ==
    /\ exists
    /\ last = NoCall
    /\ mutations < MaxMutations
    /\ ~ListIndexError(matrix, col)
    /\ matrix' = ListSet(matrix, col, column)
    /\ shared' = {pair \in shared : pair[2] # col}
    /\ last' = [op |-> "matrix[col] = column", col |-> col, column |-> column]
    /\ mutations' = mutations + 1
    /\ UNCHANGED <<exists, _matrix, _anchor, writes>>

\* del matrix[col], by the caller: the inner lists after it move down.
CallerRemoveColumn(col) ==
    /\ exists
    /\ last = NoCall
    /\ mutations < MaxMutations
    /\ ~ListIndexError(matrix, col)
    /\ matrix' = [c \in 1..(Len(matrix) - 1) |-> IF c <= col THEN matrix[c] ELSE matrix[c + 1]]
    /\ shared' = {<<pair[1], IF pair[2] > col THEN pair[2] - 1 ELSE pair[2]>> :
                     pair \in {q \in shared : q[2] # col}}
    /\ last' = [op |-> "del matrix[col]", col |-> col]
    /\ mutations' = mutations + 1
    /\ UNCHANGED <<exists, _matrix, _anchor, writes>>

\* The caller has the outcome of its call and goes on: an exception of
\* __init__ leaves it without a kernel, and it may construct again.
Return ==
    /\ last # NoCall
    /\ last' = NoCall
    /\ UNCHANGED <<matrix, exists, _matrix, _anchor, writes, shared, mutations>>

(***************************************************************************)
(* A kernel: constructed from any list of lists, then read, written and    *)
(* applied in any order.                                                   *)
(***************************************************************************)
Next ==
    \/ \E anchor \in AnchorArguments : Construct(anchor)
    \/ \E value \in AnchorArguments \ {None} : SetAnchor(value)
    \/ \E index \in IndexArguments : GetItem(index)
    \/ \E index \in IndexArguments, value \in WrittenValues : SetItem(index, value)
    \/ \E call \in KernelCalls : Apply(call.function, call.limits, call.weight, call.default)
    \/ Return

Spec == Init /\ [][Next]_vars

(***************************************************************************)
(* A filter of image.py: it constructs its kernel and applies it.          *)
(***************************************************************************)
FilterNext ==
    \/ \E anchor \in FilterAnchors : Construct(anchor)
    \/ \E call \in FilterCalls : Apply(call.function, call.limits, call.weight, call.default)
    \/ Return

FilterSpec == FilterInit /\ [][FilterNext]_vars

(***************************************************************************)
(* A caller that keeps the list it constructed the kernel from, and        *)
(* changes it while the kernel's cells are written.                        *)
(***************************************************************************)
\* The anchors the caller constructs its kernels with.
CallerAnchors == {None, <<0, 0>>}

CallerNext ==
    \/ \E anchor \in CallerAnchors : Construct(anchor)
    \/ \E index \in IndexArguments, value \in WrittenValues : SetItem(index, value)
    \/ \E col \in 0..MaxDim, row \in 0..MaxDim, value \in CallerValues :
           CallerSetElement(col, row, value)
    \/ \E col \in 0..MaxDim, column \in CallerColumns : CallerSetColumn(col, column)
    \/ \E col \in 0..MaxDim : CallerRemoveColumn(col)
    \/ Return

CallerSpec == Init /\ [][CallerNext]_vars

(***************************************************************************)
(* What apply returns.                                                     *)
(***************************************************************************)
RECURSIVE SumOf(_, _)
SumOf(term, S) ==
    IF S = {} THEN 0
    ELSE LET x == CHOOSE x \in S : TRUE
         IN  term[x] + SumOf(term, S \ {x})

\* The quotient q is the number n / d.
IsQuotient(q, n, d) == q[2] # 0 /\ q[1] * d = n * q[2]

\* The sum the output cell (ox, oy) is made of: over the cells (kx, ky) of
\* the kernel K of width kW and height kH, the value at (sx, sy), or default
\* when (sx, sy) is outside the limits, times K[kx][ky].
WindowSum(K, kW, kH, call, ox, oy) ==
    SumOf([k \in (0..(kW - 1)) \X (0..(kH - 1)) |->
              LET sx == ox + k[1] - ((kW - 1) \div 2)
                  sy == oy + k[2] - ((kH - 1) \div 2)
              IN  (IF 0 <= sx /\ sx < call.limits[1] /\ 0 <= sy /\ sy < call.limits[2]
                   THEN call.function.values[<<sx, sy>>]
                   ELSE call.default) * K[k[1] + 1][k[2] + 1]],
          (0..(kW - 1)) \X (0..(kH - 1)))

\* The call of the scenario: 3x3, 0 everywhere but 10 at (2, 1), weight 1,
\* default 0.
IsScenarioCall(call) ==
    /\ call.limits = <<3, 3>>
    /\ call.function = [values |-> [p \in Points(<<3, 3>>) |-> IF p = <<2, 1>> THEN 10 ELSE 0],
                        fails |-> {}]
    /\ call.weight = 1
    /\ call.default = 0

\* C1: apply with a function that does not raise and a weight other than 0
\* returns limits[0] columns of limits[1] cells, and the cell (ox, oy) holds
\* the sum over the kernel cells (kx, ky) of v * matrix[kx][ky], divided by
\* weight, where v is the function's value at (ox + kx - (kW-1)//2,
\* oy + ky - (kH-1)//2) or, outside the limits, default (matrix is the
\* constructor's argument); in the scenario the cell (1, 1) holds 10 and the
\* cells whose neighbourhood misses (2, 1) hold 0.
C1_ApplyIsTheWeightedSum ==
    (last.op = "apply" /\ last.weight # 0 /\ last.function.fails = {}) =>
        /\ last.raised = NoError
        /\ Len(last.ret) = last.limits[1]
        /\ \A ox \in 0..(last.limits[1] - 1) :
             /\ Len(last.ret[ox + 1]) = last.limits[2]
             /\ \A oy \in 0..(last.limits[2] - 1) :
                  IsQuotient(last.ret[ox + 1][oy + 1],
                             WindowSum(matrix, Len(matrix), Len(matrix[1]), last, ox, oy),
                             last.weight)
        /\ (matrix = EdgeDetectionMatrix /\ IsScenarioCall(last)) =>
             /\ IsQuotient(last.ret[2][2], 10, 1)
             /\ \A ox \in 0..2, oy \in 0..2 :
                  (<<2, 1>> \notin ((ox - 1)..(ox + 1)) \X ((oy - 1)..(oy + 1))) =>
                      IsQuotient(last.ret[ox + 1][oy + 1], 0, 1)

C1_Witness ==
    /\ last.op = "apply"
    /\ matrix = EdgeDetectionMatrix
    /\ IsScenarioCall(last)
    /\ last.raised = NoError
    /\ last.ret[2][2] = <<10, 1>>
    /\ last.ret[1][2] = <<0, 1>>

\* C2: every point apply called the function with is inside the limits.
C2_FunctionCalledInsideLimits ==
    (last.op = "apply") =>
        \A i \in 1..Len(last.calls) :
            /\ 0 <= last.calls[i][1] /\ last.calls[i][1] < last.limits[1]
            /\ 0 <= last.calls[i][2] /\ last.calls[i][2] < last.limits[2]

\* A kernel wider and higher than the limits, and one of even width, called
\* the function.
C2_Witness ==
    /\ last.op = "apply"
    /\ Len(last.calls) > 0
    /\ \/ Len(_matrix) > last.limits[1] /\ Len(_matrix[1]) > last.limits[2]
       \/ Len(_matrix) = 2

(***************************************************************************)
(* The anchor.                                                             *)
(***************************************************************************)
\* C3: the anchor of a kernel is a cell of its matrix.
C3_AnchorInsideMatrix ==
    exists =>
        /\ 0 <= _anchor[1] /\ _anchor[1] < Len(_matrix)
        /\ 0 <= _anchor[2] /\ _anchor[2] < Len(_matrix[1])

\* An anchor was assigned, and a cell written since.
C3_Witness ==
    /\ exists
    /\ last.op = "__setitem__"
    /\ last.raised = NoError
    /\ _anchor = <<Len(_matrix) - 1, Len(_matrix[1]) - 1>>
    /\ Len(_matrix) = 2
    /\ Len(_matrix[1]) = 2

\* The anchors that are cells of the matrix m.
CellsOf(m) == (0..(Len(m) - 1)) \X (0..(Len(m[1]) - 1))

IsRectangular(m) == \A i \in 1..Len(m), j \in 1..Len(m) : Len(m[i]) = Len(m[j])

W == Len(matrix)

H == IF Len(matrix) = 0 THEN 0 ELSE Len(matrix[1])

\* C5: constructing from a rectangular matrix without an anchor succeeds
\* exactly when W and H are odd, and then the anchor is ((W-1)/2, (H-1)/2);
\* otherwise it raises ValueError [2] and there is no kernel.
C5_OmittedAnchorIsCentre ==
    (last.op = "__init__" /\ last.anchor = None /\ IsRectangular(matrix)) =>
        /\ (last.raised = NoError) <=> (W % 2 = 1 /\ H % 2 = 1)
        /\ (last.raised = NoError) =>
             exists /\ 2 * _anchor[1] = W - 1 /\ 2 * _anchor[2] = H - 1 /\ _matrix = matrix
        /\ (last.raised # NoError) => last.raised = ValueError2 /\ ~exists

C5_Witness ==
    /\ last.op = "__init__"
    /\ last.anchor = None
    /\ W = 3 /\ H = 3
    /\ exists
    /\ _anchor = <<1, 1>>

\* The point p is outside a matrix of width w and height h.
IsOutside(p, w, h) == p[1] < 0 \/ p[2] < 0 \/ p[1] >= w \/ p[2] >= h

\* C6: constructing from a rectangular matrix with an anchor outside it
\* raises IndexError [3] and there is no kernel, and with an anchor inside
\* it gives a kernel with that anchor; assigning an anchor outside the matrix
\* raises IndexError [1] and changes neither the anchor nor a cell, and an
\* anchor inside is assigned.
C6_AnchorOutOfRange ==
    [][/\ (last'.op = "__init__" /\ last'.anchor # None /\ IsRectangular(matrix)) =>
            IF IsOutside(last'.anchor, W, H)
            THEN last'.raised = IndexError3 /\ ~exists'
            ELSE last'.raised = NoError /\ exists' /\ _anchor' = last'.anchor
       /\ (last'.op = "anchor") =>
            IF IsOutside(last'.value, Len(_matrix), Len(_matrix[1]))
            THEN last'.raised = IndexError1 /\ _anchor' = _anchor /\ _matrix' = _matrix
                 /\ exists'
            ELSE last'.raised = NoError /\ _anchor' = last'.value]_vars

\* An assignment outside the matrix was refused.
C6_Witness ==
    /\ exists
    /\ last.op = "anchor"
    /\ last.raised = IndexError1
    /\ last.value[1] = Len(_matrix)
    /\ _anchor # <<0, 0>>

\* C7: constructing from a list whose inner lists differ in length raises
\* ValueError [1] and there is no kernel, whatever the anchor argument.
C7_ShapeErrorFirst ==
    (last.op = "__init__" /\ ~IsRectangular(matrix)) =>
        last.raised = ValueError1 /\ ~exists

\* [[1, 2], [11]] with an anchor outside it.
C7_Witness ==
    /\ last.op = "__init__"
    /\ Len(matrix) = 2 /\ Len(matrix[1]) = 2 /\ Len(matrix[2]) = 1
    /\ last.anchor = <<2, 2>>
    /\ last.raised = ValueError1

(***************************************************************************)
(* The cells.                                                              *)
(***************************************************************************)
\* C8: reading or writing a cell outside the matrix (a negative index
\* included) raises IndexError [1] and changes neither a cell nor the anchor.
C8_IndexOutOfRange ==
    [][(/\ last'.op \in {"__getitem__", "__setitem__"}
        /\ IsOutside(last'.index, Len(_matrix), Len(_matrix[1]))) =>
            /\ last'.raised = IndexError1
            /\ _matrix' = _matrix
            /\ _anchor' = _anchor
            /\ exists']_vars

\* A read at a negative index was refused.
C8_Witness ==
    /\ last.op = "__getitem__"
    /\ last.index = <<0, -1>>
    /\ last.raised = IndexError1
    /\ Len(_matrix[1]) = 2

\* C9: apply changes neither a cell, nor the width, nor the height, nor the
\* anchor, whether it returns or raises.
C9_ApplyLeavesKernel ==
    [][(last'.op = "apply") =>
           /\ _matrix' = _matrix
           /\ _anchor' = _anchor
           /\ exists' = exists]_vars

\* apply on a kernel with a written cell and an anchor off its centre was
\* ended by the function's exception.
C9_Witness ==
    /\ last.op = "apply"
    /\ last.raised = FunctionError
    /\ writes > 0
    /\ _anchor # <<(Len(_matrix) - 1) \div 2, (Len(_matrix[1]) - 1) \div 2>>

(***************************************************************************)
(* The border.                                                             *)
(***************************************************************************)
\* The points around and at (ox, oy) that are outside the limits.
OutsideNeighbours(limits, ox, oy) ==
    {p \in ((ox - 1)..(ox + 1)) \X ((oy - 1)..(oy + 1)) : IsOutside(p, limits[1], limits[2])}

\* C10: the 3x3 kernel of ones, weight 9 and default 0, on a function that
\* returns c everywhere: a cell with no neighbour outside the limits holds c,
\* and a corner with 5 of its 9 neighbours outside holds 4c/9.
C10_OnesKernelAtBorder ==
    (/\ last.op = "apply"
     /\ _matrix = OnesMatrix
     /\ last.weight = 9
     /\ last.default = 0
     /\ last.function.fails = {}) =>
        \A c \in {last.function.values[p] : p \in Points(last.limits)} :
            (\A p \in Points(last.limits) : last.function.values[p] = c) =>
                /\ last.raised = NoError
                /\ \A ox \in 0..(last.limits[1] - 1), oy \in 0..(last.limits[2] - 1) :
                     /\ (OutsideNeighbours(last.limits, ox, oy) = {}) =>
                            IsQuotient(last.ret[ox + 1][oy + 1], c, 1)
                     /\ (/\ ox \in {0, last.limits[1] - 1}
                         /\ oy \in {0, last.limits[2] - 1}
                         /\ Cardinality(OutsideNeighbours(last.limits, ox, oy)) = 5) =>
                            IsQuotient(last.ret[ox + 1][oy + 1], 4 * c, 9)

C10_Witness ==
    /\ last.op = "apply"
    /\ _matrix = OnesMatrix
    /\ last.weight = 9
    /\ last.default = 0
    /\ last.limits = <<3, 3>>
    /\ last.function = [values |-> [p \in Points(<<3, 3>>) |-> 3], fails |-> {}]
    /\ last.ret[2][2] = <<3, 1>>
    /\ last.ret[1][3] = <<4, 3>>

\* The call of box_blur on a function that returns c everywhere (image.py,
\* line 115: weight 4, default 0).
IsBoxBlurOf(call, c) ==
    /\ call.weight = 4
    /\ call.default = 0
    /\ call.function.fails = {}
    /\ Points(call.limits) # {}
    /\ \A p \in Points(call.limits) : call.function.values[p] = c

\* The quotient q is less than the number n.
IsLessThan(q, n) == q[2] > 0 /\ q[1] < n * q[2]

\* C11 as the spec states it: on a function that returns c everywhere, the
\* box-blur kernel gives c at every cell with no neighbour outside the limits
\* and less than c at every cell of the border.
C11_BorderBelowConstant ==
    (last.op = "apply" /\ _matrix = BoxBlurMatrix) =>
        \A c \in {last.function.values[p] : p \in Points(last.limits)} :
            IsBoxBlurOf(last, c) =>
                /\ last.raised = NoError
                /\ \A ox \in 0..(last.limits[1] - 1), oy \in 0..(last.limits[2] - 1) :
                     IF OutsideNeighbours(last.limits, ox, oy) = {}
                     THEN IsQuotient(last.ret[ox + 1][oy + 1], c, 1)
                     ELSE IsLessThan(last.ret[ox + 1][oy + 1], c)

\* C11, amended: for c >= 0 the cells of the border hold at most c, and less
\* than c when c > 0 (they hold 0 when c = 0).
C11_BorderAtMostConstant ==
    (last.op = "apply" /\ _matrix = BoxBlurMatrix) =>
        \A c \in {last.function.values[p] : p \in Points(last.limits)} :
            (IsBoxBlurOf(last, c) /\ c >= 0) =>
                /\ last.raised = NoError
                /\ \A ox \in 0..(last.limits[1] - 1), oy \in 0..(last.limits[2] - 1) :
                     IF OutsideNeighbours(last.limits, ox, oy) = {}
                     THEN IsQuotient(last.ret[ox + 1][oy + 1], c, 1)
                     ELSE IF c > 0
                          THEN IsLessThan(last.ret[ox + 1][oy + 1], c)
                          ELSE IsQuotient(last.ret[ox + 1][oy + 1], c, 1)

\* 3 everywhere on 3x3: 3 in the middle, 9/4 on an edge, 3/2 in a corner.
C11_Witness ==
    /\ last.op = "apply"
    /\ _matrix = BoxBlurMatrix
    /\ IsBoxBlurOf(last, 3)
    /\ last.limits = <<3, 3>>
    /\ last.ret[2][2] = <<3, 1>>
    /\ last.ret[2][1] = <<9, 4>>
    /\ last.ret[1][1] = <<3, 2>>

(***************************************************************************)
(* The function's exception.                                               *)
(***************************************************************************)
\* C13: when the function raises at a point apply calls it with, apply ends
\* with that exception, returns no matrix, and that call is its last.
C13_FunctionErrorEndsApply ==
    (last.op = "apply") =>
        \A i \in 1..Len(last.calls) :
            (last.calls[i] \in last.function.fails) =>
                /\ last.raised = FunctionError
                /\ last.ret = None
                /\ i = Len(last.calls)

\* A 1x1 kernel on 3x3 whose function raises at the last point: eight cells
\* were computed, the ninth call raised.
C13_Witness ==
    /\ last.op = "apply"
    /\ last.limits = <<3, 3>>
    /\ last.function.fails = {<<2, 2>>}
    /\ Len(_matrix) = 1 /\ Len(_matrix[1]) = 1
    /\ last.weight = 1
    /\ Len(last.calls) = 9
    /\ last.raised = FunctionError
    /\ last.ret = None

(***************************************************************************)
(* A cell write.                                                           *)
(***************************************************************************)
\* C14: a cell write that does not raise makes the read of that cell return
\* the value written and leaves every other cell, the anchor, the width and
\* the height as they were; an anchor assignment that does not raise leaves
\* every cell as it was; the width and the height of a kernel are those of
\* the matrix it was constructed from.
C14_WriteChangesOneCell ==
    [][/\ (last'.op = "__setitem__" /\ last'.raised = NoError) =>
            /\ __getitem__(_matrix', last'.index) = [raised |-> NoError, ret |-> last'.value]
            /\ Len(_matrix') = Len(_matrix)
            /\ \A x \in 1..Len(_matrix) :
                 /\ Len(_matrix'[x]) = Len(_matrix[x])
                 /\ \A y \in 1..Len(_matrix[x]) :
                      (<<x - 1, y - 1>> # last'.index) => _matrix'[x][y] = _matrix[x][y]
            /\ _anchor' = _anchor
       /\ (last'.op = "anchor" /\ last'.raised = NoError) => _matrix' = _matrix
       /\ exists' =>
            /\ Len(_matrix') = Len(matrix')
            /\ \A x \in 1..Len(_matrix') : Len(_matrix'[x]) = Len(matrix'[1])]_vars

\* The cell (1, 0) of a 2x2 kernel with anchor (1, 1) was written.
C14_Witness ==
    /\ last.op = "__setitem__"
    /\ last.raised = NoError
    /\ last.index = <<1, 0>>
    /\ Len(_matrix) = 2 /\ Len(_matrix[1]) = 2
    /\ _anchor = <<1, 1>>
    /\ _matrix[2][1] = last.value
    /\ _matrix[1][1] = matrix[1][1]
    /\ _matrix[2][2] = matrix[2][2]

(***************************************************************************)
(* The caller's list.                                                      *)
(***************************************************************************)
\* The changes the caller makes to its list.
CallerChanges == {"matrix[col][row] = value", "matrix[col] = column", "del matrix[col]"}

\* C12: a change the caller makes to its list after the construction leaves
\* every cell, the width and the height of the kernel as they were, and a
\* cell write leaves the caller's list as it was.
C12_KernelOwnsItsMatrix ==
    [][/\ (last'.op \in CallerChanges) => (_matrix' = _matrix /\ _anchor' = _anchor)
       /\ (last'.op = "__setitem__") => matrix' = matrix]_vars

\* The caller has removed an inner list the kernel still has, and a cell of
\* the kernel was written.
C12_Witness ==
    /\ exists
    /\ mutations > 0
    /\ writes > 0
    /\ last.op = "__setitem__"
    /\ last.raised = NoError
    /\ Len(matrix) < Len(_matrix)

====
